---- MODULE Spec2Model ----
(***************************************************************************)
(* Placement, node registry and capability tokens of the shbucket master.  *)
(*                                                                         *)
(* The database tables of the master (Buckets, Files, StorageNodes,        *)
(* SignedURLs) are the state; every request handler is one action that     *)
(* runs to completion.  Failures of the environment (a node that rejects   *)
(* or does not answer, a failed disk write, a failed database save) are    *)
(* inputs of the action that meets them.  `last` records the request that  *)
(* was handled last, the values it decided on and what it returned.        *)
(***************************************************************************)
EXTENDS Integers, Sequences, FiniteSets, TLC

\* ---------------------------------------------------------------- bounds
MaxNodes == 2          \* storage nodes that may register
MaxBuckets == 1        \* bucket ids a request may name
MaxFiles == 2          \* object ids that uuid.New() may hand out
MaxNames == 2          \* distinct file names of uploads
MaxSize == 2           \* largest upload, in bytes
MaxCapacity == 2       \* largest ceiling a node registers with
MasterMaxStorage == 2  \* SetupConfig.MaxStorage of the master
MaxTime == 3           \* clock ticks
MaxTtl == 2            \* largest expires_in of a signed URL

NodeIds == 1..MaxNodes
BucketIds == 1..MaxBuckets
FileIds == 1..MaxFiles
Names == 1..MaxNames
Sizes == 1..MaxSize
Capacities == 1..MaxCapacity
Ttls == 1..MaxTtl

NoNode == 0
NoFile == 0
NoTime == -1

VARIABLES
    buckets,      \* Buckets table: ids of the buckets that exist
    files,        \* Files table: set of file records
    nodes,        \* StorageNodes table: node id -> row (registered or not)
    disk,         \* object ids whose bytes are on the master's disk
    nodeStore,    \* <<node, object id>> whose bytes a node has accepted
    signedURLs,   \* SignedURLs table: sequence of rows
    usedIds,      \* object ids uuid.New() has handed out
    now,          \* the clock
    publicRead,   \* buckets whose Settings.PublicRead is true
    inflight,     \* handlers that have read the database and not yet written
    last          \* the request handled last and its outcome

vars == <<buckets, files, nodes, disk, nodeStore, signedURLs, usedIds, now,
          publicRead, inflight, last>>

\* ------------------------------------------------------------- helpers

\* Bucket.Name has a unique index: one name per bucket id.
BucketName(b) == 100 + b

\* The smallest element of a non-empty set of ids.
MinOf(S) == CHOOSE x \in S : \A y \in S : x <= y

RECURSIVE SumField(_)
\* Files.SumField("Size"): the sum of Size over ALL rows of the Files table.
SumField(fs) ==
    IF fs = {} THEN 0
    ELSE LET f == CHOOSE x \in fs : TRUE
         IN f.size + SumField(fs \ {f})

\* masterFreeSpace := masterConfig.MaxStorage - int64(masterUsedStorage)
masterFreeSpace == MasterMaxStorage - SumField(files)

\* A slip in the query: the health of the node is not asked for.
AvailableNodes_IgnoresHealth == {n \in NodeIds : nodes[n].registered /\ nodes[n].isActive}

\* StorageNodes.Where({IsActive: true, IsHealthy: true})
AvailableNodes == {n \in NodeIds : nodes[n].registered /\ nodes[n].isActive /\ nodes[n].isHealthy}

\* .FirstOrDefault() of that query: rows come back in primary-key order; ids are
\* handed out in any order, so every row can be the first one.
FirstAvailableNode == IF AvailableNodes = {} THEN NoNode ELSE MinOf(AvailableNodes)

\* availableNode.MaxStorage - availableNode.UsedStorage
NodeFree(n) == nodes[n].maxStorage - nodes[n].usedStorage

\* "node://{nodeid}/{bucketid}/{fileid}"
NodePath(n, b, id) == [scheme |-> "node", node |-> n, bucket |-> b, file |-> id]

\* filepath.Join(storagePath, bucket.Name, fileID)
LocalPath(b, id) == [scheme |-> "local", node |-> NoNode, bucket |-> BucketName(b), file |-> id]

UnregisteredNode ==
    [registered |-> FALSE, isActive |-> FALSE, isHealthy |-> FALSE,
     maxStorage |-> 0, usedStorage |-> 0, lastPing |-> NoTime]

Init ==
    /\ buckets = {}
    /\ files = {}
    /\ nodes = [n \in NodeIds |-> UnregisteredNode]
    /\ disk = {}
    /\ nodeStore = {}
    /\ signedURLs = <<>>
    /\ usedIds = {}
    /\ now = 0
    /\ publicRead = {}
    /\ inflight = {}
    /\ last = [op |-> "init"]

\* ------------------------------------------------------------- buckets

\* CreateBucketRequestHandler.Handle: a bucket name is taken at most once.
CreateBucket ==
    \E b \in BucketIds :
        /\ b \notin buckets
        /\ buckets' = buckets \cup {b}
        /\ last' = [op |-> "createBucket"]
        /\ UNCHANGED <<publicRead, inflight, files, nodes, disk, nodeStore, signedURLs, usedIds, now>>

\* --------------------------------------------------------- node registry

\* RegisterNodeRequestHandler.Handle: a new row, unhealthy until its first ping.
RegisterNode ==
    \E n \in NodeIds, cap \in Capacities, active \in BOOLEAN :
        /\ ~nodes[n].registered
        /\ nodes' = [nodes EXCEPT ![n] =
                        [registered |-> TRUE, isActive |-> active, isHealthy |-> FALSE,
                         maxStorage |-> cap, usedStorage |-> 0, lastPing |-> NoTime]]
        /\ last' = [op |-> "register"]
        /\ UNCHANGED <<buckets, publicRead, inflight, files, disk, nodeStore, signedURLs, usedIds, now>>

\* The shared secret of node n: node n's URL is n and its secret is n.
SecretOf(n) == n

\* A request or a response that carries no auth key.
NoKey == 0

\* Ping: Where(&StorageNode{URL: nodeURL, AuthKey: authKey}).FirstOrDefault() finds a
\* row.
PingMatches_UrlOnly(url, authKey) == nodes[url].registered
PingMatches(url, authKey) == nodes[url].registered /\ authKey = SecretOf(url)

\* NodeController.Ping.  authKey = NoKey: the request carries no Authorization and no
\* X-API-Key header.
Ping ==
    \E url \in NodeIds, authKey \in NodeIds \cup {NoKey}, saveOk \in BOOLEAN :
        LET found == authKey # NoKey /\ PingMatches(url, authKey)
            status == IF ~found THEN 401 ELSE IF ~saveOk THEN 500 ELSE 200
        IN /\ nodes' = IF found /\ saveOk
                       THEN [nodes EXCEPT ![url].lastPing = now, ![url].isHealthy = TRUE]
                       ELSE nodes
           /\ last' = [op |-> "ping", ok |-> (found /\ saveOk), url |-> url,
                       authKey |-> authKey, status |-> status]
           /\ UNCHANGED <<buckets, publicRead, inflight, files, disk, nodeStore, signedURLs, usedIds, now>>

\* NodeController.CheckAllNodesHealth: probe every row, save them all at once.
CheckAllNodesHealth ==
    \E reachable \in SUBSET NodeIds :
        /\ nodes' = [n \in NodeIds |->
                        IF nodes[n].registered
                        THEN [nodes[n] EXCEPT !.isHealthy = (n \in reachable),
                                              !.lastPing = now,
                                              !.isActive = TRUE]
                        ELSE nodes[n]]
        /\ last' = [op |-> "sweep", reachable |-> reachable]
        /\ UNCHANGED <<buckets, publicRead, inflight, files, disk, nodeStore, signedURLs, usedIds, now>>

\* NodeController.HealthCheck: probe one row and save it.
HealthCheck ==
    \E n \in NodeIds, reachable \in BOOLEAN, saveOk \in BOOLEAN :
        IF ~nodes[n].registered
        THEN /\ last' = [op |-> "probe", node |-> n, reachable |-> {}, status |-> 404]
             /\ UNCHANGED <<buckets, publicRead, inflight, files, nodes, disk, nodeStore, signedURLs, usedIds, now>>
        ELSE /\ nodes' = IF saveOk
                         THEN [nodes EXCEPT ![n].isHealthy = reachable,
                                            ![n].lastPing = now,
                                            ![n].isActive = TRUE]
                         ELSE nodes
             /\ last' = [op |-> "probe", node |-> n,
                         reachable |-> IF reachable THEN {n} ELSE {},
                         status |-> IF saveOk THEN 200 ELSE 500]
             /\ UNCHANGED <<buckets, publicRead, inflight, files, disk, nodeStore, signedURLs, usedIds, now>>

\* NodeController.SelfRegister: no credentials asked; the node is registered active
\* with a generated secret, which the response carries back to it.
SelfRegister ==
    \E n \in NodeIds, cap \in Capacities :
        IF nodes[n].registered
        THEN /\ last' = [op |-> "selfRegister", url |-> n, status |-> 400, authKey |-> NoKey]
             /\ UNCHANGED <<buckets, publicRead, inflight, files, nodes, disk, nodeStore, signedURLs, usedIds, now>>
        ELSE /\ nodes' = [nodes EXCEPT ![n] =
                            [registered |-> TRUE, isActive |-> TRUE, isHealthy |-> FALSE,
                             maxStorage |-> cap, usedStorage |-> 0, lastPing |-> NoTime]]
             /\ last' = [op |-> "selfRegister", url |-> n, status |-> 201,
                         authKey |-> SecretOf(n)]
             /\ UNCHANGED <<buckets, publicRead, inflight, files, disk, nodeStore, signedURLs, usedIds, now>>

\* NodeController.GetAuthKey, on the route group that asks for no credentials: the
\* row with the URL of the query, and its AuthKey in the response.
GetAuthKey ==
    \E url \in NodeIds :
        /\ last' = IF nodes[url].registered
                   THEN [op |-> "getAuthKey", url |-> url, status |-> 200,
                         authKey |-> SecretOf(url)]
                   ELSE [op |-> "getAuthKey", url |-> url, status |-> 404, authKey |-> NoKey]
        /\ UNCHANGED <<buckets, publicRead, inflight, files, nodes, disk, nodeStore, signedURLs, usedIds, now>>

\* ------------------------------------------------------------- placement

\* A slip in the comparison: an object that exactly fills the master goes to a node.
NeedsNode_OffByOne(free, size) == free <= size

\* if masterFreeSpace < fileSize { ... place on a node ... }
NeedsNode(free, size) == free < size

\* A slip in the comparison: a node one byte short is taken to have room.
NodeLacksSpace_OffByOne(n, size) == NodeFree(n) + 1 < size

\* if availableNode.MaxStorage - availableNode.UsedStorage < fileSize { reject }
NodeLacksSpace(n, size) == NodeFree(n) < size

\* A slip in the test of the answer: every answer of the node counts as accepted.
RemoteAccepted_Any(status) == TRUE

\* InternalUpload on the node: it answers 2xx after it has saved the bytes, and
\* with an error status (or not at all) when it has not.
NodeStored(status) == status \in {200, 201}

\* uploadToNode: resp.StatusCode == http.StatusOK || resp.StatusCode == http.StatusCreated
\* (status 0 stands for a transport error: client.Do returned err)
RemoteAccepted(status) == status = 200 \/ status = 201

\* A slip in the accounting: the counter counts objects instead of bytes.
NewUsedStorage_CountsObjects(n, size) == nodes[n].usedStorage + 1

\* availableNode.UsedStorage += fileSize
NewUsedStorage(n, size) == nodes[n].usedStorage + size

\* What the handler returns and records: the request, the node it selected, whether a
\* write request left for that node and the status the node answered (0: no answer
\* or no request), whether the node's new counter reached the database, the error
\* ("" for a response) and the id of the file record it created.
UploadResult(b, size, node, sent, status, nodeSaved, err, id) ==
    [op |-> "upload", bucket |-> b, size |-> size, node |-> node, sent |-> sent,
     status |-> status, nodeSaved |-> nodeSaved, err |-> err, file |-> IF err = "" THEN id ELSE NoFile]

\* An upload that returns err before anything was written anywhere.
UploadRejected(b, size, node, err) ==
    /\ last' = UploadResult(b, size, node, FALSE, 0, FALSE, err, NoFile)
    /\ UNCHANGED <<buckets, publicRead, inflight, files, nodes, disk, nodeStore, signedURLs, usedIds, now>>

\* A fallback the handler does not have: the first active+healthy node with room.
Candidate_WithFallback(size) ==
    LET roomy == {n \in AvailableNodes : NodeFree(n) >= size}
    IN IF roomy = {} THEN FirstAvailableNode ELSE MinOf(roomy)

\* The one node the handler considers for an object: the row FirstOrDefault returned,
\* whatever the size.
Candidate(size) == FirstAvailableNode

\* Lines 71-118 and 164-215: the master lacks space, the object goes to the first
\* active+healthy node.
UploadToNodePath(b, name, size, id) ==
    LET node == Candidate(size)
    IN IF node = NoNode
       THEN UploadRejected(b, size, NoNode, "no active storage nodes available")
       ELSE IF NodeLacksSpace(node, size)
       THEN UploadRejected(b, size, node, "no storage space available")
       ELSE IF b \notin buckets   \* uploadToNode: Buckets.First fails before the request
       THEN UploadRejected(b, size, node, "failed to upload to storage node")
       ELSE \E status \in {0, 200, 201, 500} :
            IF status = 0 \/ ~RemoteAccepted(status)
            THEN /\ last' = UploadResult(b, size, node, TRUE, status, FALSE,
                                IF status = 0 THEN "failed to upload to storage node"
                                ELSE "storage node rejected the upload", NoFile)
                 /\ nodeStore' = IF NodeStored(status) THEN nodeStore \cup {<<node, id>>}
                                 ELSE nodeStore
                 /\ usedIds' = IF NodeStored(status) THEN usedIds \cup {id} ELSE usedIds
                 /\ UNCHANGED <<buckets, publicRead, inflight, files, nodes, disk, signedURLs, now>>
            ELSE \E nodeSaveOk \in BOOLEAN, fileSaveOk \in BOOLEAN :
                 /\ nodeStore' = IF NodeStored(status) THEN nodeStore \cup {<<node, id>>}
                                 ELSE nodeStore
                 /\ usedIds' = usedIds \cup {id}
                 \* StorageNodes.Update + SaveChanges, the error of the save is dropped
                 /\ nodes' = IF nodeSaveOk
                             THEN [nodes EXCEPT ![node].usedStorage = NewUsedStorage(node, size)]
                             ELSE nodes
                 \* Files.Add + SaveChanges
                 /\ files' = IF fileSaveOk
                             THEN files \cup {[id |-> id, bucket |-> b, name |-> name,
                                               size |-> size, path |-> NodePath(node, b, id)]}
                             ELSE files
                 /\ last' = UploadResult(b, size, node, TRUE, status, nodeSaveOk,
                                IF fileSaveOk THEN "" ELSE "failed to create file record", id)
                 /\ UNCHANGED <<buckets, publicRead, inflight, disk, signedURLs, now>>

\* Lines 120-163 and 170-215: the master has space, the object goes to its disk.
UploadLocalPath(b, name, size, id) ==
    IF b \notin buckets
    THEN UploadRejected(b, size, NoNode, "bucket not found")
    ELSE \E diskOk \in BOOLEAN :
         IF ~diskOk
         THEN UploadRejected(b, size, NoNode, "failed to save file to disk")
         ELSE \E fileSaveOk \in BOOLEAN :
              /\ disk' = disk \cup {id}
              /\ usedIds' = usedIds \cup {id}
              /\ files' = IF fileSaveOk
                          THEN files \cup {[id |-> id, bucket |-> b, name |-> name,
                                            size |-> size, path |-> LocalPath(b, id)]}
                          ELSE files
              /\ last' = UploadResult(b, size, NoNode, FALSE, 0, FALSE,
                             IF fileSaveOk THEN "" ELSE "failed to create file record", id)
              /\ UNCHANGED <<buckets, publicRead, inflight, nodes, nodeStore, signedURLs, now>>

\* DistributedUploadRequestHandler.Handle, run to completion.
DistributedUpload ==
    \E b \in BucketIds, name \in Names, size \in Sizes, id \in FileIds \ usedIds :
        IF NeedsNode(masterFreeSpace, size)
        THEN UploadToNodePath(b, name, size, id)
        ELSE UploadLocalPath(b, name, size, id)

\* ------------------------------------------------------ capability tokens

\* payload "bucketID:fileID" under the signing secret, base64 of HMAC-SHA256: one
\* string per payload, different payloads give different strings.
generateHMAC(b, f) == b * (MaxFiles + 1) + f

\* A signature string with one character changed: the HMAC of no payload.
Corrupted(sig) == sig + (MaxBuckets + 1) * (MaxFiles + 1)

\* The signature strings a caller may present.
Signatures ==
    LET issued == {generateHMAC(b, f) : b \in BucketIds, f \in FileIds}
    IN issued \cup {Corrupted(sig) : sig \in issued}

\* SignedURLs.Where({Signature: signature}).FirstOrDefault(): index of the row, 0 if none
FindSignedURL(rows, sig) ==
    LET hits == {i \in 1..Len(rows) : rows[i].signature = sig}
    IN IF hits = {} THEN 0 ELSE MinOf(hits)

\* Buckets.Where({Name: name}).FirstOrDefault(): the bucket id, 0 if none
FindBucketByName(name) ==
    LET hits == {b \in buckets : BucketName(b) = name}
    IN IF hits = {} THEN 0 ELSE MinOf(hits)

\* Files.Where({Name: name, BucketId: b}).FirstOrDefault(): the file id, NoFile if none
FindFileByName(name, b) ==
    LET hits == {f.id : f \in {g \in files : g.name = name /\ g.bucket = b}}
    IN IF hits = {} THEN NoFile ELSE MinOf(hits)

\* Files.Where({Id: id, BucketId: b}).FirstOrDefault()
FindFile(id, b) == {f \in files : f.id = id /\ f.bucket = b}

\* rows without the row at index i
RemoveAt(rows, i) == SubSeq(rows, 1, i - 1) \o SubSeq(rows, i + 1, Len(rows))

\* A slip in the reuse test: an existing row is never taken to be valid.
StillValid_Never(row) == FALSE

\* Handle: existingSignedURL.ExpiresAt.After(time.Now())
StillValid(row) == row.expiresAt > now

\* ValidateSignedURL: signedURL.ExpiresAt.Before(time.Now())
HasExpired(row) == row.expiresAt < now

\* ValidateSignedURL: signedURL.SingleUse && signedURL.Used
AlreadyUsed(row) == row.singleUse /\ row.used

\* A slip in the integrity check: the comparison is skipped.
SignaturesEqual_Skipped(signature, expected) == TRUE

\* ValidateSignedURL: hmac.Equal([]byte(signature), []byte(expectedSignature))
SignaturesEqual(signature, expected) == signature = expected

\* A slip in the guard: every token is marked, single-use or not.
ShouldMark_Always(row) == TRUE

\* MarkSignatureAsUsed: if signedURL.SingleUse { mark }
ShouldMark(row) == row.singleUse

\* The file ValidateSignedURL resolves from the names stored in the row (NoFile when
\* the bucket or the file is not found).
ResolvedFile(row) ==
    LET b == FindBucketByName(row.bucketName)
    IN IF b = 0 THEN NoFile ELSE FindFileByName(row.fileName, b)

\* The error ValidateSignedURL returns for a signature ("" when it returns the row).
ValidateErr(sig) ==
    LET i == FindSignedURL(signedURLs, sig)
    IN IF i = 0 THEN "signature not found in database"
       ELSE LET row == signedURLs[i]
                b == FindBucketByName(row.bucketName)
                f == ResolvedFile(row)
            IN IF HasExpired(row) THEN "signature has expired"
               ELSE IF AlreadyUsed(row) THEN "single-use signature has already been used"
               ELSE IF b = 0 THEN "bucket not found for signature"
               ELSE IF f = NoFile THEN "file not found for signature"
               ELSE IF ~SignaturesEqual(sig, generateHMAC(b, f))
                    THEN "signature integrity check failed"
               ELSE ""

\* An issue that returns err without touching the table.
IssueRejected(sig, singleUse, err) ==
    /\ last' = [op |-> "issue", sig |-> sig, singleUse |-> singleUse, err |-> err,
                expiresAt |-> NoTime]
    /\ UNCHANGED <<buckets, publicRead, inflight, files, nodes, disk, nodeStore, signedURLs, usedIds, now>>

\* GenerateSignedURLRequestHandler.Handle, run to completion.
GenerateSignedURL ==
    \E b \in BucketIds, f \in FileIds, ttl \in Ttls, singleUse \in BOOLEAN :
        LET sig == generateHMAC(b, f)
            i == FindSignedURL(signedURLs, sig)
        IN IF FindFile(f, b) = {}
           THEN IssueRejected(sig, singleUse, "file not found")
           ELSE IF b \notin buckets
           THEN IssueRejected(sig, singleUse, "bucket not found")
           ELSE IF i # 0 /\ StillValid(signedURLs[i])
           THEN \* "Existing signed URL returned"
                /\ last' = [op |-> "issue", sig |-> sig, singleUse |-> singleUse, err |-> "",
                            expiresAt |-> signedURLs[i].expiresAt]
                /\ UNCHANGED <<buckets, publicRead, inflight, files, nodes, disk, nodeStore, signedURLs, usedIds, now>>
           ELSE \E removeOk \in BOOLEAN, storeOk \in BOOLEAN :
                LET file == CHOOSE g \in FindFile(f, b) : TRUE
                    kept == IF i # 0 /\ removeOk THEN RemoveAt(signedURLs, i) ELSE signedURLs
                    row == [signature |-> sig, bucketName |-> BucketName(b),
                            fileName |-> file.name, method |-> "GET",
                            expiresAt |-> now + ttl, singleUse |-> singleUse,
                            used |-> FALSE, usedAt |-> NoTime]
                    \* the unique index on Signature refuses a second row
                    stored == storeOk /\ FindSignedURL(kept, sig) = 0
                    err == IF i # 0 /\ ~removeOk THEN "failed to remove expired signature"
                           ELSE IF ~stored THEN "failed to store signature"
                           ELSE ""
                IN /\ signedURLs' = IF err = "" THEN Append(kept, row) ELSE kept
                   /\ last' = [op |-> "issue", sig |-> sig, singleUse |-> singleUse,
                               err |-> err,
                               expiresAt |-> IF err = "" THEN now + ttl ELSE NoTime]
                   /\ UNCHANGED <<buckets, publicRead, inflight, files, nodes, disk, nodeStore, usedIds, now>>

\* GenerateSignedURLRequestHandler.ValidateSignedURL: reads, writes nothing.
ValidateSignedURL ==
    \E sig \in Signatures :
        LET i == FindSignedURL(signedURLs, sig)
        IN /\ last' = [op |-> "validate", sig |-> sig, err |-> ValidateErr(sig),
                       file |-> IF i = 0 THEN NoFile ELSE ResolvedFile(signedURLs[i])]
           /\ UNCHANGED <<buckets, publicRead, inflight, files, nodes, disk, nodeStore, signedURLs, usedIds, now>>

\* GenerateSignedURLRequestHandler.MarkSignatureAsUsed
MarkSignatureAsUsed ==
    \E sig \in Signatures, saveOk \in BOOLEAN :
        LET i == FindSignedURL(signedURLs, sig)
            marks == i # 0 /\ ShouldMark(signedURLs[i])
            err == IF i = 0 THEN "signature not found"
                   ELSE IF marks /\ ~saveOk THEN "failed to mark signature as used"
                   ELSE ""
        IN /\ signedURLs' = IF marks /\ saveOk
                            THEN [signedURLs EXCEPT ![i].used = TRUE, ![i].usedAt = now]
                            ELSE signedURLs
           /\ last' = [op |-> "markUsed", sig |-> sig, err |-> err]
           /\ UNCHANGED <<buckets, publicRead, inflight, files, nodes, disk, nodeStore, usedIds, now>>

\* time.Now() moves on.
Tick ==
    /\ now < MaxTime
    /\ now' = now + 1
    /\ last' = [op |-> "tick"]
    /\ UNCHANGED <<buckets, publicRead, inflight, files, nodes, disk, nodeStore, signedURLs, usedIds>>

\* UpdateBucketRequestHandler.Handle with settings: PublicRead is switched on or off.
UpdateBucket ==
    \E b \in BucketIds, public \in BOOLEAN :
        /\ b \in buckets
        /\ publicRead' = IF public THEN publicRead \cup {b} ELSE publicRead \ {b}
        /\ last' = [op |-> "updateBucket"]
        /\ UNCHANGED <<buckets, inflight, files, nodes, disk, nodeStore, signedURLs, usedIds, now>>

\* ------------------------------------------------------------- deleting a file

\* deleteFromNode: only http.StatusOK is taken as success (status 0 stands for a
\* transport error: client.Do returned err).
NodeDeleted(status) == status = 200

\* A slip in the parsing: the second part of the path is taken for the node.
NodeLocation_WrongPart(path) == <<path.bucket, path.file>>

\* deleteFromNode: "node://nodeID/bucketID/fileID" split at "/": the node is part 0,
\* the file on that node is part 2.
NodeLocation(path) == <<path.node, path.file>>

\* What the delete handler returns and records: the request, the location it acted
\* on, whether the bytes were there when it started, the status the node answered
\* (0: no answer or no request), the error ("" for a response) and the secret
\* deleteFromNode puts in the Authorization header (storageNode.AuthKey).
DeleteResult(b, f, target, present, status, err) ==
    [op |-> "delete", bucket |-> b, file |-> f, target |-> target, present |-> present,
     status |-> status, err |-> err,
     authKey |-> IF target.scheme = "node" THEN SecretOf(NodeLocation(target)[1]) ELSE NoKey]

\* No location: the handler returned before it touched any bytes.
NoPath == [scheme |-> "none", node |-> NoNode, bucket |-> 0, file |-> NoFile]

\* A delete that returns err before anything was touched.
DeleteRejected(b, f, err) ==
    /\ last' = DeleteResult(b, f, NoPath, FALSE, 0, err)
    /\ UNCHANGED <<buckets, publicRead, inflight, files, nodes, disk, nodeStore, signedURLs, usedIds, now>>

\* deleteFromNode and, on the node, InternalDelete: the node removes
\* storage_path/bucket_name/file_id and answers 200, also when the file is not there;
\* any other status, or no answer, is an error for the master.
DeleteRemote(b, f, rec) ==
    LET n == NodeLocation(rec.path)[1]
        present == NodeLocation(rec.path) \in nodeStore
    IN IF rec.path.bucket \notin buckets \/ ~nodes[n].registered
       THEN DeleteRejected(b, f, "failed to delete physical file")
       ELSE \E status \in {0, 200, 404, 500} :
            IF ~NodeDeleted(status)
            THEN /\ last' = DeleteResult(b, f, rec.path, present, status,
                                         "failed to delete physical file")
                 /\ UNCHANGED <<buckets, publicRead, inflight, files, nodes, disk, nodeStore, signedURLs, usedIds, now>>
            ELSE \E saveOk \in BOOLEAN :
                 /\ nodeStore' = nodeStore \ {NodeLocation(rec.path)}
                 /\ files' = IF saveOk THEN files \ {rec} ELSE files
                 /\ last' = DeleteResult(b, f, rec.path, present, status,
                                IF saveOk THEN "" ELSE "failed to delete file record")
                 /\ UNCHANGED <<buckets, publicRead, inflight, nodes, disk, signedURLs, usedIds, now>>

\* deletePhysicalFile on a local path: os.Remove, a file that is not there is fine.
DeleteLocal(b, f, rec) ==
    LET present == rec.path.file \in disk
    IN \E removeOk \in BOOLEAN :
       IF present /\ ~removeOk
       THEN /\ last' = DeleteResult(b, f, rec.path, present, 0,
                                    "failed to delete physical file")
            /\ UNCHANGED <<buckets, publicRead, inflight, files, nodes, disk, nodeStore, signedURLs, usedIds, now>>
       ELSE \E saveOk \in BOOLEAN :
            /\ disk' = disk \ {rec.path.file}
            /\ files' = IF saveOk THEN files \ {rec} ELSE files
            /\ last' = DeleteResult(b, f, rec.path, present, 0,
                           IF saveOk THEN "" ELSE "failed to delete file record")
            /\ UNCHANGED <<buckets, publicRead, inflight, nodes, nodeStore, signedURLs, usedIds, now>>

\* DeleteFileRequestHandler.Handle, run to completion.  permitted: the caller owns
\* the bucket or uploaded the file.
DeleteFile ==
    \E b \in BucketIds, f \in FileIds, permitted \in BOOLEAN :
        IF FindFile(f, b) = {}
        THEN DeleteRejected(b, f, "file not found")
        ELSE IF b \notin buckets
        THEN DeleteRejected(b, f, "bucket not found")
        ELSE IF ~permitted
        THEN DeleteRejected(b, f, "unauthorized")
        ELSE LET rec == CHOOSE g \in FindFile(f, b) : TRUE
             IN IF rec.path.scheme = "node"
                THEN DeleteRemote(b, f, rec)
                ELSE DeleteLocal(b, f, rec)

\* ----------------------------------------------------------- serving a file

\* c.Query("signature") of a request that carries no signature
NoSig == 0

\* ServeFile: the signature branch.  The row ValidateSignatureOnly returns is not
\* compared with the bucket and file of the request.
SignatureAdmits(sig, b, f) == ValidateErr(sig) = ""

\* Where ServeFile reads nothing from.
NoSource == [scheme |-> "none", node |-> NoNode, authKey |-> NoKey]

\* A slip in the routing: every object is read from the disk of the master.
ReadSource_AlwaysLocal(path) == [scheme |-> "local", node |-> NoNode, authKey |-> NoKey]

\* ServeFile: an object whose path starts with "node://" is fetched from the node
\* that is part 0 of the path, with the AuthKey of the row of that node
\* (fetchFileFromNode); any other path is sent from the disk (c.SendFile).
ReadSource(path) ==
    IF path.scheme = "node"
    THEN [scheme |-> "node", node |-> path.node, authKey |-> SecretOf(path.node)]
    ELSE [scheme |-> "local", node |-> NoNode, authKey |-> NoKey]

\* The bytes of the object are where ServeFile reads them.
BytesAt(src, id) ==
    IF src.scheme = "node" THEN <<src.node, id>> \in nodeStore ELSE id \in disk

\* What ServeFile answers, what it was asked and where it read.
ServeResult(b, f, sig, requiresAuth, status, source) ==
    [op |-> "serve", bucket |-> b, file |-> f, sig |-> sig,
     requiresAuth |-> requiresAuth, status |-> status, source |-> source]

\* One run of ServeFile with its inputs decided.
ServeRun(b, f, sig, credential, markOk, bytesOk) ==
    LET requiresAuth == b \notin publicRead
        i == FindSignedURL(signedURLs, sig)
        marks == /\ requiresAuth /\ sig # NoSig /\ SignatureAdmits(sig, b, f)
                 /\ signedURLs[i].singleUse /\ ~signedURLs[i].used
        refused ==
            IF FindFile(f, b) = {} THEN 404
            ELSE IF b \notin buckets THEN 404
            ELSE IF requiresAuth /\ sig # NoSig /\ ~SignatureAdmits(sig, b, f) THEN 401
            ELSE IF marks /\ ~markOk THEN 500
            ELSE IF requiresAuth /\ sig = NoSig /\ ~credential THEN 401
            ELSE 0
        source == IF refused # 0 THEN NoSource
                  ELSE ReadSource((CHOOSE g \in FindFile(f, b) : TRUE).path)
        status == IF refused # 0 THEN refused
                  ELSE IF ~bytesOk \/ ~BytesAt(source, f) THEN 500
                  ELSE 200
    IN /\ signedURLs' = IF marks /\ markOk /\ FindFile(f, b) # {} /\ b \in buckets
                        THEN [signedURLs EXCEPT ![i].used = TRUE, ![i].usedAt = now]
                        ELSE signedURLs
       /\ last' = ServeResult(b, f, sig, requiresAuth, status, source)
       /\ UNCHANGED <<buckets, publicRead, inflight, files, nodes, disk, nodeStore, usedIds, now>>

\* FileController.ServeFile, run to completion.  credential: the request carries a
\* valid API key or JWT; markOk: MarkSignatureAsUsed succeeds; bytesOk: the read
\* (from the disk or from the node) does not fail on its way.  An input is drawn
\* where the handler gets to it.
ServeFile ==
    \E b \in BucketIds, f \in FileIds, sig \in Signatures \cup {NoSig} :
        LET found == FindFile(f, b) # {} /\ b \in buckets
            requiresAuth == b \notin publicRead
            signed == found /\ requiresAuth /\ sig # NoSig
            admitted == signed /\ SignatureAdmits(sig, b, f)
        IN IF ~found \/ (signed /\ ~admitted)
           THEN ServeRun(b, f, sig, FALSE, TRUE, TRUE)
           ELSE IF admitted
           THEN \E markOk \in BOOLEAN :
                    IF markOk
                    THEN \E bytesOk \in BOOLEAN : ServeRun(b, f, sig, FALSE, TRUE, bytesOk)
                    ELSE ServeRun(b, f, sig, FALSE, FALSE, TRUE)
           ELSE IF requiresAuth
           THEN \E credential \in BOOLEAN :
                    IF credential
                    THEN \E bytesOk \in BOOLEAN : ServeRun(b, f, sig, TRUE, TRUE, bytesOk)
                    ELSE ServeRun(b, f, sig, FALSE, TRUE, TRUE)
           ELSE \E bytesOk \in BOOLEAN : ServeRun(b, f, sig, FALSE, TRUE, bytesOk)

\* ------------------------------------------- handlers that run side by side

\* The handlers above run alone.  Here a handler that reads a node row, talks to the
\* node and then saves the row is two steps: the read, which puts a frame with the
\* copy of the row(s) it holds in `inflight`, and the save, which writes the copy
\* back.  Update, UpdateRange and Save write the whole row.

\* How many handlers run side by side.
MaxCallers == 2
Callers == 1..MaxCallers

\* The ids uuid.New() can hand to a placement that another upload has overtaken: the
\* ids not handed out yet, and one more id when there is none left (the placement
\* follows the object that has filled the master and the object of the other upload).
FreshIds == IF FileIds \ usedIds # {} THEN FileIds \ usedIds ELSE {MaxFiles + 1} \ usedIds

HealthFrames == {fr \in inflight : fr.op \in {"sweep", "probe", "ping"}}
PlaceFrames == {fr \in inflight : fr.op = "place"}

\* The row a health handler saves: its copy with the fields it has assigned.
\* CheckAllNodesHealth and HealthCheck assign IsHealthy, LastPing and IsActive;
\* Ping assigns LastPing and IsHealthy.
HealthRow(kind, row, reached) ==
    IF kind = "ping"
    THEN [row EXCEPT !.lastPing = now, !.isHealthy = TRUE]
    ELSE [row EXCEPT !.isHealthy = reached, !.lastPing = now, !.isActive = TRUE]

\* CheckAllNodesHealth: StorageNodes.ToList(); HealthCheck and Ping: the query for
\* the one row.
HealthRead ==
    \E kind \in {"sweep", "probe", "ping"}, n \in NodeIds :
        LET targets == IF kind = "sweep" THEN {m \in NodeIds : nodes[m].registered} ELSE {n}
        IN /\ HealthFrames = {}
           /\ targets # {}
           /\ \A m \in targets : nodes[m].registered
           /\ inflight' = inflight \cup {[op |-> kind, rows |-> [m \in targets |-> nodes[m]]]}
           /\ last' = [op |-> "healthRead"]
           /\ UNCHANGED <<buckets, publicRead, files, nodes, disk, nodeStore, signedURLs, usedIds, now>>

\* The save that ends the health handler: UpdateRange + SaveChanges, SaveChanges,
\* or Save.
HealthWrite ==
    \E fr \in HealthFrames, reachable \in SUBSET NodeIds :
        /\ reachable \subseteq DOMAIN fr.rows
        /\ nodes' = [m \in NodeIds |->
                        IF m \in DOMAIN fr.rows
                        THEN HealthRow(fr.op, fr.rows[m], m \in reachable)
                        ELSE nodes[m]]
        /\ inflight' = inflight \ {fr}
        /\ last' = [op |-> "healthWrite", kind |-> fr.op, targets |-> DOMAIN fr.rows]
        /\ UNCHANGED <<buckets, publicRead, files, disk, nodeStore, signedURLs, usedIds, now>>

\* DistributedUploadRequestHandler.Handle up to the request to the node: the master
\* lacks space, the first active+healthy row has room, the bucket exists.
PlaceRead ==
    \E b \in BucketIds, size \in Sizes :
        LET node == Candidate(size)
        IN /\ PlaceFrames = {}
           /\ NeedsNode(masterFreeSpace, size)
           /\ node # NoNode
           /\ ~NodeLacksSpace(node, size)
           /\ b \in buckets
           /\ inflight' = inflight \cup {[op |-> "place", bucket |-> b, size |-> size,
                                          node |-> node, row |-> nodes[node]]}
           /\ last' = [op |-> "placeRead"]
           /\ UNCHANGED <<buckets, publicRead, files, nodes, disk, nodeStore, signedURLs, usedIds, now>>

\* The rest of that Handle: the answer of the node, the save of the row with the new
\* counter (availableNode.UsedStorage += fileSize; Update; SaveChanges), the record.
\* overtaken: the counter in the table is no longer the one this upload has read.
PlaceWrite ==
    \E fr \in PlaceFrames, name \in Names, id \in FreshIds,
       status \in {0, 200, 500}, fileSaveOk \in BOOLEAN :
        LET accepted == status # 0 /\ RemoteAccepted(status)
            err == IF status = 0 THEN "failed to upload to storage node"
                   ELSE IF ~accepted THEN "storage node rejected the upload"
                   ELSE IF ~fileSaveOk THEN "failed to create file record"
                   ELSE ""
        IN /\ inflight' = inflight \ {fr}
           /\ nodeStore' = IF NodeStored(status) THEN nodeStore \cup {<<fr.node, id>>}
                           ELSE nodeStore
           /\ usedIds' = IF NodeStored(status) \/ accepted THEN usedIds \cup {id} ELSE usedIds
           /\ nodes' = IF accepted
                       THEN [nodes EXCEPT ![fr.node] =
                                [fr.row EXCEPT !.usedStorage = fr.row.usedStorage + fr.size]]
                       ELSE nodes
           /\ files' = IF err = ""
                       THEN files \cup {[id |-> id, bucket |-> fr.bucket, name |-> name,
                                         size |-> fr.size,
                                         path |-> NodePath(fr.node, fr.bucket, id)]}
                       ELSE files
           /\ last' = [op |-> "placeWrite", node |-> fr.node, size |-> fr.size,
                       accepted |-> accepted, err |-> err,
                       overtaken |-> nodes[fr.node].usedStorage # fr.row.usedStorage]
           /\ UNCHANGED <<buckets, publicRead, disk, signedURLs, now>>

\* GenerateSignedURLRequestHandler.Handle in two steps, for callers that run side by
\* side: the lookup of the existing row, then the removal of an expired row and the
\* insert.
IssueFrames == {fr \in inflight : fr.op = "issue"}

\* Handle up to the lookup (lines 46-80): the file and the bucket exist and there is
\* no row in its validity window to return.  The frame keeps the row it found.
IssueCheck ==
    \E c \in Callers, b \in BucketIds, f \in FileIds, ttl \in Ttls, singleUse \in BOOLEAN :
        LET sig == generateHMAC(b, f)
            i == FindSignedURL(signedURLs, sig)
        IN /\ \A fr \in IssueFrames : fr.caller # c
           /\ FindFile(f, b) # {}
           /\ b \in buckets
           /\ ~(i # 0 /\ StillValid(signedURLs[i]))
           /\ inflight' = inflight \cup
                 {[op |-> "issue", caller |-> c, bucket |-> b, file |-> f,
                   singleUse |-> singleUse, expiresAt |-> now + ttl,
                   existing |-> IF i = 0 THEN <<>> ELSE <<signedURLs[i]>>]}
           /\ last' = [op |-> "issueCheck"]
           /\ UNCHANGED <<buckets, publicRead, files, nodes, disk, nodeStore, signedURLs, usedIds, now>>

\* The rest of Handle (lines 95-133): Remove of the expired row it found, then Add
\* and SaveChanges, which the unique index on Signature refuses when a row with the
\* signature is there.  dbOk: the database is up.
IssueStore ==
    \E fr \in IssueFrames, dbOk \in BOOLEAN :
        LET sig == generateHMAC(fr.bucket, fr.file)
            file == CHOOSE g \in files : g.id = fr.file
            old == {i \in 1..Len(signedURLs) :
                       fr.existing # <<>> /\ signedURLs[i] = fr.existing[1]}
            kept == IF old # {} /\ dbOk THEN RemoveAt(signedURLs, MinOf(old)) ELSE signedURLs
            row == [signature |-> sig, bucketName |-> BucketName(fr.bucket),
                    fileName |-> file.name, method |-> "GET",
                    expiresAt |-> fr.expiresAt, singleUse |-> fr.singleUse,
                    used |-> FALSE, usedAt |-> NoTime]
            stored == dbOk /\ FindSignedURL(kept, sig) = 0
            err == IF fr.existing # <<>> /\ ~dbOk THEN "failed to remove expired signature"
                   ELSE IF ~stored THEN "failed to store signature"
                   ELSE ""
        IN /\ inflight' = inflight \ {fr}
           /\ signedURLs' = IF err = "" THEN Append(kept, row) ELSE kept
           /\ last' = [op |-> "issueStore", sig |-> sig, dbOk |-> dbOk, err |-> err]
           /\ UNCHANGED <<buckets, publicRead, files, nodes, disk, nodeStore, usedIds, now>>

\* ServeFile in two steps, for requests that present a token side by side: the token
\* check, then the marking and the delivery.
ServeFrames == {fr \in inflight : fr.op = "serve"}

\* ServeFile up to ValidateSignatureOnly (lines 237-296) for a request that gets past
\* it: the object and its bucket exist, the bucket is not public, the token is
\* admitted.  The frame keeps the record of the object and the row validate returned.
ServeCheck ==
    \E c \in Callers, b \in BucketIds, f \in FileIds, sig \in Signatures :
        /\ \A fr \in ServeFrames : fr.caller # c
        /\ FindFile(f, b) # {}
        /\ b \in buckets
        /\ b \notin publicRead
        /\ SignatureAdmits(sig, b, f)
        /\ inflight' = inflight \cup
              {[op |-> "serve", caller |-> c, file |-> f, sig |-> sig,
                path |-> (CHOOSE g \in FindFile(f, b) : TRUE).path,
                row |-> signedURLs[FindSignedURL(signedURLs, sig)]]}
        /\ last' = [op |-> "serveCheck"]
        /\ UNCHANGED <<buckets, publicRead, files, nodes, disk, nodeStore, signedURLs, usedIds, now>>

\* One run of the rest of ServeFile with its inputs decided.
ServeDeliverRun(fr, markOk, bytesOk) ==
    LET i == FindSignedURL(signedURLs, fr.sig)
        marks == fr.row.singleUse /\ ~fr.row.used
        written == marks /\ i # 0 /\ ShouldMark(signedURLs[i]) /\ markOk
        status == IF marks /\ (i = 0 \/ (ShouldMark(signedURLs[i]) /\ ~markOk)) THEN 500
                  ELSE IF ~bytesOk \/ ~BytesAt(ReadSource(fr.path), fr.file) THEN 500
                  ELSE 200
    IN /\ signedURLs' = IF written
                        THEN [signedURLs EXCEPT ![i].used = TRUE, ![i].usedAt = now]
                        ELSE signedURLs
       /\ inflight' = inflight \ {fr}
       /\ last' = [op |-> "serveDeliver", sig |-> fr.sig, status |-> status]
       /\ UNCHANGED <<buckets, publicRead, files, nodes, disk, nodeStore, usedIds, now>>

\* The rest of ServeFile (lines 297-419): the row validate returned is single-use and
\* not used, so MarkSignatureAsUsed looks the row up again and saves it as used;
\* then the bytes are read and sent.
ServeDeliver ==
    \E fr \in ServeFrames :
        IF fr.row.singleUse /\ ~fr.row.used
        THEN \E markOk \in BOOLEAN :
                 IF markOk
                 THEN \E bytesOk \in BOOLEAN : ServeDeliverRun(fr, TRUE, bytesOk)
                 ELSE ServeDeliverRun(fr, FALSE, TRUE)
        ELSE \E bytesOk \in BOOLEAN : ServeDeliverRun(fr, TRUE, bytesOk)

\* ------------------------------------------------- outbound calls to a node

\* The calls the master makes to a node: pingNode, uploadToNode, fetchFileFromNode,
\* deleteFromNode.
CallKinds == {"probe", "write", "read", "delete"}

\* http.Client{} has Timeout 0: the client never gives up on its own.
NoTimeout == 0

\* pingNode: Timeout: 10 * time.Second
ProbeTimeout == 10

\* The Timeout of the http.Client each call is made with.
ClientTimeout(kind) == IF kind = "probe" THEN ProbeTimeout ELSE NoTimeout

CallFrames == {fr \in inflight : fr.op = "call"}

\* client.Do(req) is entered: the request is on its way to a registered node, which
\* will answer it or never will.
CallNode ==
    \E kind \in CallKinds, n \in NodeIds, answers \in BOOLEAN :
        /\ CallFrames = {}
        /\ nodes[n].registered
        /\ inflight' = inflight \cup {[op |-> "call", kind |-> kind, node |-> n,
                                       answers |-> answers]}
        /\ last' = [op |-> "callStart"]
        /\ UNCHANGED <<buckets, publicRead, files, nodes, disk, nodeStore, signedURLs, usedIds, now>>

\* The node answers: client.Do returns the response.
NodeAnswers ==
    \E fr \in CallFrames :
        /\ fr.answers
        /\ inflight' = inflight \ {fr}
        /\ last' = [op |-> "callEnd", kind |-> fr.kind, err |-> ""]
        /\ UNCHANGED <<buckets, publicRead, files, nodes, disk, nodeStore, signedURLs, usedIds, now>>

\* The Timeout of the client runs out: client.Do returns an error.
ClientGivesUp ==
    \E fr \in CallFrames :
        /\ ClientTimeout(fr.kind) # NoTimeout
        /\ inflight' = inflight \ {fr}
        /\ last' = [op |-> "callEnd", kind |-> fr.kind, err |-> "request failed"]
        /\ UNCHANGED <<buckets, publicRead, files, nodes, disk, nodeStore, signedURLs, usedIds, now>>

\* ------------------------------------------------------------ specification

\* The placement and node-registry requests.
Next ==
    \/ CreateBucket
    \/ RegisterNode
    \/ Ping
    \/ CheckAllNodesHealth
    \/ HealthCheck
    \/ DistributedUpload

Spec == Init /\ [][Next]_vars

\* The capability-token requests, on the objects uploads create, as time passes.
TokenNext ==
    \/ CreateBucket
    \/ DistributedUpload
    \/ GenerateSignedURL
    \/ ValidateSignedURL
    \/ MarkSignatureAsUsed
    \/ Tick

TokenSpec == Init /\ [][TokenNext]_vars

\* Reads of objects with or without a token, on buckets that are public or not.
ServeNext ==
    \/ CreateBucket
    \/ UpdateBucket
    \/ DistributedUpload
    \/ GenerateSignedURL
    \/ ServeFile

ServeSpec == Init /\ [][ServeNext]_vars

\* The life of objects: placed, read, signed for, deleted, while nodes come and go.
StoreNext ==
    \/ CreateBucket
    \/ RegisterNode
    \/ Ping
    \/ CheckAllNodesHealth
    \/ DistributedUpload
    \/ DeleteFile

StoreSpec == Init /\ [][StoreNext]_vars

\* A health handler and a placement on a node, each in two steps, in any order.
RaceNext ==
    \/ CreateBucket
    \/ RegisterNode
    \/ DistributedUpload
    \/ HealthRead
    \/ HealthWrite
    \/ PlaceRead
    \/ PlaceWrite

RaceSpec == Init /\ [][RaceNext]_vars

\* Callers that ask for a signed URL side by side.
IssueRaceNext ==
    \/ CreateBucket
    \/ DistributedUpload
    \/ IssueCheck
    \/ IssueStore

IssueRaceSpec == Init /\ [][IssueRaceNext]_vars

\* The requests of the node route group, which asks for no credentials, and the
\* registration by an administrator.
NodeNext ==
    \/ RegisterNode
    \/ SelfRegister
    \/ GetAuthKey
    \/ Ping
    \/ CheckAllNodesHealth

NodeSpec == Init /\ [][NodeNext]_vars

\* Calls to registered nodes; an answer that is due arrives and a timeout that is
\* set runs out.
CallNext ==
    \/ RegisterNode
    \/ CallNode
    \/ NodeAnswers
    \/ ClientGivesUp

CallSpec == Init /\ [][CallNext]_vars /\ WF_vars(NodeAnswers) /\ WF_vars(ClientGivesUp)

\* Tokens that are validated and tokens that are presented to read an object.
DeliverNext ==
    \/ CreateBucket
    \/ DistributedUpload
    \/ GenerateSignedURL
    \/ ValidateSignedURL
    \/ ServeFile

DeliverSpec == Init /\ [][DeliverNext]_vars

\* Objects placed on the master or on a node, read and deleted.
RouteNext ==
    \/ CreateBucket
    \/ SelfRegister
    \/ CheckAllNodesHealth
    \/ DistributedUpload
    \/ ServeFile
    \/ DeleteFile

RouteSpec == Init /\ [][RouteNext]_vars

\* An upload that another upload overtakes between its read of the node row and its
\* save.
PlaceRaceNext ==
    \/ CreateBucket
    \/ RegisterNode
    \/ CheckAllNodesHealth
    \/ DistributedUpload
    \/ PlaceRead
    \/ PlaceWrite

PlaceRaceSpec == Init /\ [][PlaceRaceNext]_vars

\* Requests that present a token side by side.
ServeRaceNext ==
    \/ CreateBucket
    \/ DistributedUpload
    \/ GenerateSignedURL
    \/ ServeCheck
    \/ ServeDeliver

ServeRaceSpec == Init /\ [][ServeRaceNext]_vars

\* ------------------------------------------------------- placement claims

\* The file record an upload created, given the tables after it.
RecordOf(fs, id) == CHOOSE f \in fs : f.id = id

\* C1: an upload whose size is <= the free space the handler computes for the
\* master is placed locally: no write request leaves for a node, no node row and no
\* node's bytes change, and the record of a successful upload has a local path whose
\* bytes are on the master's disk.
C1_Step ==
    (last'.op = "upload" /\ last'.size <= masterFreeSpace) =>
        /\ ~last'.sent
        /\ last'.node = NoNode
        /\ nodes' = nodes
        /\ nodeStore' = nodeStore
        /\ \A f \in files' \ files : f.path.scheme = "local"
        /\ last'.err = "" =>
              /\ \E f \in files' \ files : f.id = last'.file
              /\ RecordOf(files', last'.file).path = LocalPath(last'.bucket, last'.file)
              /\ last'.file \in disk'

C1_LocalPlacement == [][C1_Step]_vars

\* C1 witness: an upload was placed locally while an active+healthy node with room
\* for it was registered.
C1_Witness ==
    /\ last.op = "upload"
    /\ last.err = ""
    /\ \E f \in files : f.id = last.file /\ f.path.scheme = "local"
    /\ \E n \in AvailableNodes : NodeFree(n) >= last.size

\* C2 as stated (failures of the environment excused): when the master lacks space
\* and SOME active+healthy node has room, the upload succeeds on a node whose
\* counter grows by the size, or at least a write request left for a node.
C2_OriginalStep ==
    (/\ last'.op = "upload"
     /\ last'.size > masterFreeSpace
     /\ last'.bucket \in buckets
     /\ \E n \in AvailableNodes : NodeFree(n) >= last'.size) =>
        \/ last'.sent
        \/ /\ last'.err = ""
           /\ last'.node # NoNode
           /\ nodes'[last'.node].usedStorage = nodes[last'.node].usedStorage + last'.size

C2_Step ==
    (/\ last'.op = "upload"
     /\ last'.size > masterFreeSpace
     /\ last'.bucket \in buckets
     /\ FirstAvailableNode # NoNode
     /\ NodeFree(FirstAvailableNode) >= last'.size) =>
        LET n == FirstAvailableNode
            accepted == last'.err \in {"", "failed to create file record"}
        IN /\ last'.sent
           /\ last'.node = n
           /\ \A m \in NodeIds \ {n} : nodes'[m] = nodes[m]
           /\ nodes'[n].usedStorage =
                 IF accepted /\ last'.nodeSaved
                 THEN nodes[n].usedStorage + last'.size
                 ELSE nodes[n].usedStorage
           /\ last'.err = "" =>
                 /\ \E f \in files' \ files : f.id = last'.file
                 /\ RecordOf(files', last'.file).path = NodePath(n, last'.bucket, last'.file)
                 /\ <<n, last'.file>> \in nodeStore'
           /\ disk' = disk

C3_Step ==
    (/\ last'.op = "upload"
     /\ last'.size > masterFreeSpace
     /\ \A n \in AvailableNodes : NodeFree(n) < last'.size) =>
        /\ last'.err # ""
        /\ last'.file = NoFile
        /\ ~last'.sent
        /\ files' = files
        /\ nodes' = nodes
        /\ nodeStore' = nodeStore
        /\ disk' = disk

C3_NoSpaceNoTrace == [][C3_Step]_vars

\* C3 witness: an upload was refused because the selected node, active and healthy,
\* had less room than the object needs.
C3_Witness ==
    /\ last.op = "upload"
    /\ last.err = "no storage space available"
    /\ last.node \in AvailableNodes
    /\ \A n \in AvailableNodes : NodeFree(n) < last.size
    /\ ~last.sent

\* C4: an upload is all or nothing: with an error there is no new record and no
\* counter grew; with a response the record exists and, for a remote placement, the
\* chosen node's counter holds the size.
C4_Step ==
    last'.op = "upload" =>
        /\ last'.err # "" =>
              /\ files' = files
              /\ \A n \in NodeIds : nodes'[n].usedStorage = nodes[n].usedStorage
        /\ last'.err = "" =>
              /\ \E f \in files' : f.id = last'.file
              /\ last'.node # NoNode =>
                    nodes'[last'.node].usedStorage = nodes[last'.node].usedStorage + last'.size

C4_AllOrNothing == [][C4_Step]_vars

\* ----------------------------------------------------------- token claims

\* The row stored for a signature (only where FindSignedURL finds one).
RowOf(sig) == signedURLs[FindSignedURL(signedURLs, sig)]

\* What validate would answer for each signature a caller may present.
ValidateAnswers == [sig \in Signatures |-> ValidateErr(sig)]

\* C5: the signature a successful issue(bucket, object, ttl, singleUse = false)
\* returns passes validate right after the issue, whatever happened before.
C5_RoundTrip ==
    (last.op = "issue" /\ last.err = "" /\ ~last.singleUse) => ValidateErr(last.sig) = ""

\* Table of rows in which no two rows carry the same signature.
UniqueSignatures(rows) ==
    \A i, j \in 1..Len(rows) : rows[i].signature = rows[j].signature => i = j

\* C6: an issue for an object whose token is still in its validity window succeeds
\* with that token's signature and expiry, adds no row and changes no row; and no
\* two rows ever carry the same signature.
C6_Step ==
    /\ UniqueSignatures(signedURLs')
    /\ (/\ last'.op = "issue"
        /\ last'.err # "file not found"
        /\ last'.err # "bucket not found"
        /\ FindSignedURL(signedURLs, last'.sig) # 0
        /\ RowOf(last'.sig).expiresAt > now) =>
           /\ last'.err = ""
           /\ last'.expiresAt = RowOf(last'.sig).expiresAt
           /\ signedURLs' = signedURLs

C6_IdempotentIssue == [][C6_Step]_vars

\* C6 witness: a second issue, asking for the other single-use flag and at a time
\* when no new token could get this expiry, returned the stored token.
C6_Witness ==
    /\ last.op = "issue"
    /\ last.err = ""
    /\ FindSignedURL(signedURLs, last.sig) # 0
    /\ RowOf(last.sig).singleUse # last.singleUse
    /\ last.expiresAt = RowOf(last.sig).expiresAt
    /\ \A ttl \in Ttls \ {1} : last.expiresAt # now + ttl
    /\ last.expiresAt = now + 1
    /\ Len(signedURLs) = 1

\* C7: markUsed on a single-use token sets used and used_at and nothing else, and
\* validate then fails with "already used" (until the token expires); markUsed on a
\* multi-use token changes nothing, and a multi-use token that validates keeps
\* validating across validate and markUsed calls.
C7_Step ==
    LET sig == last'.sig
        i == FindSignedURL(signedURLs, sig)
    IN /\ (last'.op = "markUsed" /\ last'.err = "") =>
             /\ i # 0
             /\ IF signedURLs[i].singleUse
                THEN /\ signedURLs' = [signedURLs EXCEPT ![i].used = TRUE, ![i].usedAt = now]
                     /\ ~HasExpired(signedURLs[i]) =>
                           ValidateAnswers'[sig] = "single-use signature has already been used"
                ELSE signedURLs' = signedURLs
       /\ (/\ last'.op \in {"validate", "markUsed"}
           /\ i # 0
           /\ ~signedURLs[i].singleUse
           /\ ValidateErr(sig) = "") =>
             /\ ValidateAnswers'[sig] = ""
             /\ last'.err = ""

C7_SingleUseThenUsed == [][C7_Step]_vars

\* C7 witness: a single-use token was marked used and validate now answers
\* "already used".
C7_Witness ==
    /\ last.op = "markUsed"
    /\ last.err = ""
    /\ FindSignedURL(signedURLs, last.sig) # 0
    /\ RowOf(last.sig).singleUse
    /\ RowOf(last.sig).used
    /\ RowOf(last.sig).usedAt = now
    /\ ValidateErr(last.sig) = "single-use signature has already been used"

\* C8: once a single-use signature is marked used, no request makes validate
\* succeed for it again.  (The instant at which the clock equals the expiry is left
\* out; the statement fails without it.)
C8_Step ==
    \A sig \in Signatures :
        (/\ FindSignedURL(signedURLs, sig) # 0
         /\ AlreadyUsed(RowOf(sig))
         /\ RowOf(sig).expiresAt # now) =>
            ValidateAnswers'[sig] # ""

C8_UsedForever == [][C8_Step]_vars

\* C9: a validate that answers "expired" has removed the row.
C9_ExpiredRowRemoved ==
    (last.op = "validate" /\ last.err = "signature has expired") =>
        FindSignedURL(signedURLs, last.sig) = 0

\* C10: validate answers "not found" for a signature that has no row; for a stored,
\* unexpired, unused signature whose names resolve to a bucket and a file it answers
\* "integrity failure" when the signature is not the HMAC of their ids, and succeeds
\* only when it is.
C10_NotFoundOrIntegrity ==
    last.op = "validate" =>
        LET i == FindSignedURL(signedURLs, last.sig)
        IN IF i = 0
           THEN last.err = "signature not found in database"
           ELSE LET row == signedURLs[i]
                    b == FindBucketByName(row.bucketName)
                IN (/\ row.expiresAt >= now
                    /\ ~(row.singleUse /\ row.used)
                    /\ b # 0
                    /\ last.file # NoFile) =>
                       /\ last.file = FindFileByName(row.fileName, b)
                       /\ IF last.sig = generateHMAC(b, last.file)
                          THEN last.err = ""
                          ELSE last.err = "signature integrity check failed"

\* C10 witness: validate answered "integrity failure" for a stored signature.
C10_Witness ==
    /\ last.op = "validate"
    /\ last.err = "signature integrity check failed"
    /\ FindSignedURL(signedURLs, last.sig) # 0
    /\ last.sig # generateHMAC(FindBucketByName(RowOf(last.sig).bucketName), last.file)

\* ------------------------------------------------------------- read claims

\* C11: a request for (bucket, file) of a non-public bucket that presents a
\* signature is served only if the signature is the one issued for that bucket and
\* file.
C11_TokenBoundToObject ==
    (/\ last.op = "serve"
     /\ last.status = 200
     /\ last.requiresAuth
     /\ last.sig # NoSig) =>
        last.sig = generateHMAC(last.bucket, last.file)

\* ----------------------------------------------------------- health claims

\* The fields of a node row that a health probe has no business with.
AdminFields(row) ==
    [registered |-> row.registered, isActive |-> row.isActive,
     maxStorage |-> row.maxStorage, usedStorage |-> row.usedStorage]

\* C12: a probe (HealthCheck or CheckAllNodesHealth) of a registered node that is
\* healthy and answers leaves it healthy and changes no field of it other than
\* last_contact: the active flag, the counter and the capacity keep their values.
C12_Step ==
    \A n \in NodeIds :
        (/\ last'.op \in {"probe", "sweep"}
         /\ n \in last'.reachable
         /\ nodes[n].registered
         /\ nodes[n].isHealthy) =>
            /\ nodes'[n].isHealthy
            /\ AdminFields(nodes'[n]) = AdminFields(nodes[n])

C12_ProbeIdempotent == [][C12_Step]_vars

\* ----------------------------------------------------------- delete claims

\* C13: a delete of an object whose bytes are already gone from the location its
\* record names (the node, whatever the node answers, "not found" included, or the
\* master's disk) returns success and removes the record.  A node that gives no
\* answer or answers with a server error, and a failed save of the removal, are
\* left out.
C13_Step ==
    (/\ last'.op = "delete"
     /\ last'.target # NoPath
     /\ ~last'.present
     /\ last'.err # "failed to delete file record"
     /\ last'.target.scheme = "node" => last'.status \notin {0, 500}) =>
        /\ last'.err = ""
        /\ FindFile(last'.file, last'.bucket) # {}
        /\ \A g \in files' : g.id # last'.file

C14_Step ==
    /\ \A f \in files, g \in files' : f.id = g.id => g = f
    /\ \A g \in files' \ files :
          /\ last'.op = "upload"
          /\ g.id = last'.file
          /\ IF last'.node = NoNode
             THEN /\ g.path = [scheme |-> "local", node |-> NoNode,
                               bucket |-> BucketName(g.bucket), file |-> g.id]
                  /\ g.id \in disk'
             ELSE /\ g.path = [scheme |-> "node", node |-> last'.node,
                               bucket |-> g.bucket, file |-> g.id]
                  /\ <<last'.node, g.id>> \in nodeStore'
    /\ (last'.op = "delete" /\ last'.target # NoPath) =>
          LET t == last'.target
          IN /\ \E rec \in files : rec.id = last'.file /\ rec.path = t
             /\ IF t.scheme = "node"
                THEN /\ disk' = disk
                     /\ nodeStore' \in {nodeStore, nodeStore \ {<<t.node, t.file>>}}
                     /\ last'.err = "" => <<t.node, t.file>> \notin nodeStore'
                ELSE /\ nodeStore' = nodeStore
                     /\ disk' \in {disk, disk \ {t.file}}
                     /\ last'.err = "" => t.file \notin disk'

C14_PathImmutable == [][C14_Step]_vars

\* C14 witness: an object on the second node was deleted at the location of its
\* record while another object stays where its record says.
C14_Witness ==
    /\ last.op = "delete"
    /\ last.err = ""
    /\ last.present
    /\ last.target.scheme = "node"
    /\ last.target.node # last.target.bucket
    /\ <<last.target.node, last.target.file>> \notin nodeStore
    /\ \E g \in files : g.path.scheme = "local" /\ g.id \in disk

\* ------------------------------------------------- more placement claims

\* C15: the node an upload selects is registered, active and healthy in the
\* registry at that moment, and only such a node is sent a write; a registration
\* leaves the node unhealthy, and a node becomes healthy by a ping of its own or by a
\* probe that reached it, by nothing else.
C15_Step ==
    /\ (last'.op = "upload" /\ last'.node # NoNode) =>
          /\ nodes[last'.node].registered
          /\ nodes[last'.node].isActive
          /\ nodes[last'.node].isHealthy
    /\ (last'.op = "upload" /\ last'.sent) => last'.node # NoNode
    /\ (last'.op = "upload") => \A loc \in nodeStore' \ nodeStore : loc[1] = last'.node
    /\ \A n \in NodeIds :
          /\ (~nodes[n].registered /\ nodes'[n].registered) => ~nodes'[n].isHealthy
          /\ (~nodes[n].isHealthy /\ nodes'[n].isHealthy) =>
                \/ last'.op = "ping" /\ last'.ok
                \/ last'.op \in {"probe", "sweep"} /\ n \in last'.reachable

C15_NeverRoutesToDownNode == [][C15_Step]_vars

\* C15 witness: an upload went to a node while a node that comes earlier in the
\* registry, active and with room for the object, was passed over because it is
\* marked unhealthy.
C15_Witness ==
    /\ last.op = "upload"
    /\ last.err = ""
    /\ last.node # NoNode
    /\ \E m \in NodeIds :
          /\ m < last.node
          /\ nodes[m].registered /\ nodes[m].isActive /\ ~nodes[m].isHealthy
          /\ NodeFree(m) >= last.size
          /\ nodes[m].lastPing # NoTime

\* The records of the objects whose bytes are on the master's own disk.
LocalFiles == {f \in files : f.path.scheme = "local"}

\* C16: the free space the upload handler computes for the master is its ceiling
\* minus the sizes of the locally stored objects only; objects placed on nodes do
\* not count.
C16_FreeSpaceCountsLocalOnly ==
    masterFreeSpace = MasterMaxStorage - SumField(LocalFiles)

\* C17: when the master lacks space the upload considers one node only, the first
\* active+healthy row of the registry: that node is the one it reports, no other node
\* gets bytes or a new counter, and when that node lacks room the upload is rejected
\* with nothing written, also when another active+healthy node has room.
C17_Step ==
    (last'.op = "upload" /\ last'.size > masterFreeSpace) =>
        LET first == IF AvailableNodes = {} THEN NoNode ELSE MinOf(AvailableNodes)
        IN /\ last'.node = first
           /\ \A m \in NodeIds \ {first} : nodes'[m] = nodes[m]
           /\ \A loc \in nodeStore' \ nodeStore : loc[1] = first
           /\ (first # NoNode /\ nodes[first].maxStorage - nodes[first].usedStorage < last'.size) =>
                 /\ last'.err = "no storage space available"
                 /\ ~last'.sent
                 /\ nodes' = nodes
                 /\ nodeStore' = nodeStore
                 /\ files' = files
                 /\ disk' = disk

C17_SingleCandidate == [][C17_Step]_vars

\* C17 witness: an upload was rejected for lack of room on the first node while a
\* later active+healthy node had room for the object.
C17_Witness ==
    /\ last.op = "upload"
    /\ last.err = "no storage space available"
    /\ last.node # NoNode
    /\ \E m \in AvailableNodes : m > last.node /\ NodeFree(m) >= last.size

\* C18: when the write to the selected node is rejected (the node answers with a
\* status that is not a success) or the node does not answer, the upload returns an
\* error, creates no record, leaves every node row (the counters included) as it
\* was and writes nothing to the master's disk.
C18_Step ==
    (/\ last'.op = "upload"
     /\ last'.sent
     /\ last'.status \notin {200, 201}) =>
        /\ last'.err \in {"failed to upload to storage node", "storage node rejected the upload"}
        /\ last'.file = NoFile
        /\ files' = files
        /\ nodes' = nodes
        /\ disk' = disk

C18_RemoteRejectAborts == [][C18_Step]_vars

\* C18 witness: a node answered 500 to the write of an object the master had no
\* room for, and the upload was rejected: the node's counter is still 0 and every
\* record there is names the master's disk.
C18_Witness ==
    /\ last.op = "upload"
    /\ last.sent
    /\ last.status = 500
    /\ last.err = "storage node rejected the upload"
    /\ last.size <= NodeFree(last.node)
    /\ nodes[last.node].usedStorage = 0
    /\ nodeStore = {}
    /\ files # {}
    /\ \A f \in files : f.path.scheme = "local" /\ f.id \in disk

\* ------------------------------------------------------ concurrency claims

\* C19: a health handler that runs side by side with a placement on the same node
\* leaves the node's counter and capacity alone: its save changes no used-storage
\* counter, so that the counter holds the size of every placement that was saved.
\* (The active flag, which the probes also write, is the subject of C12.)
C19_Step ==
    /\ last'.op = "healthWrite" =>
          \A n \in NodeIds :
              /\ nodes'[n].usedStorage = nodes[n].usedStorage
              /\ nodes'[n].maxStorage = nodes[n].maxStorage
    /\ (last'.op = "placeWrite" /\ last'.accepted) =>
          nodes'[last'.node].usedStorage = nodes[last'.node].usedStorage + last'.size

C19_HealthKeepsCounter == [][C19_Step]_vars

\* C20: of two issue calls for one object that both found no token to return, the
\* unique index lets one row in, and the call that comes second to the insert finds
\* the row of the first and returns its signature with success, not an error.
C20_Step ==
    /\ UniqueSignatures(signedURLs')
    /\ (/\ last'.op = "issueStore"
        /\ last'.dbOk
        /\ FindSignedURL(signedURLs, last'.sig) # 0
        /\ StillValid(RowOf(last'.sig))) =>
           last'.err = ""

C20_SecondInsertSucceeds == [][C20_Step]_vars

\* ------------------------------------------------------------ node claims

\* C21: the only response that carries the shared secret of a node is the response
\* to the self-registration that has just created the node.
C21_SecretStaysInside ==
    (last.op \in {"getAuthKey", "selfRegister"} /\ last.authKey # NoKey) =>
        /\ last.op = "selfRegister"
        /\ last.status = 201

\* C22: every call of the master to a node returns: whenever a call is on its way,
\* it ends, with the answer of the node or, if the node never answers, with the
\* error of a timeout.
C22_CallsReturn == (CallFrames # {}) ~> (CallFrames = {})

\* C23: validating a token changes no token, and a read changes a token only when it
\* delivers the object: after a read that ends in an error, whatever the error, every
\* token is as it was before the read.
C23_ConsumedOnlyOnDelivery ==
    [][/\ last'.op = "validate" => signedURLs' = signedURLs
       /\ (last'.op = "serve" /\ last'.status # 200) => signedURLs' = signedURLs]_vars

\* C24: a ping marks a node healthy and sets its last contact only when its URL and
\* secret both match one registered row; a ping with an unknown URL or a wrong secret
\* is answered 401 and changes no row; a ping that succeeds changes the healthy flag
\* and the last contact of the matched row and nothing else.
C24_Step ==
    last'.op = "ping" =>
        LET url == last'.url
            matches == nodes[url].registered /\ last'.authKey = SecretOf(url)
        IN /\ last'.status = 200 => matches
           /\ ~matches => (last'.status = 401 /\ nodes' = nodes)
           /\ last'.status = 200 =>
                 nodes' = [nodes EXCEPT ![url].isHealthy = TRUE, ![url].lastPing = now]
           /\ last'.status # 200 => nodes' = nodes

C25_Step ==
    /\ (last'.op = "serve" /\ last'.source # NoSource) =>
          LET rec == CHOOSE g \in FindFile(last'.file, last'.bucket) : TRUE
          IN /\ rec.path.scheme = "node" =>
                   /\ last'.source = [scheme |-> "node", node |-> rec.path.node,
                                      authKey |-> SecretOf(rec.path.node)]
                   /\ last'.status = 200 => <<rec.path.node, rec.id>> \in nodeStore
             /\ rec.path.scheme = "local" =>
                   /\ last'.source = [scheme |-> "local", node |-> NoNode, authKey |-> NoKey]
                   /\ last'.status = 200 => rec.id \in disk
    /\ (last'.op = "delete" /\ last'.target # NoPath) =>
          LET target == last'.target
          IN /\ target.scheme = "node" =>
                   /\ disk' = disk
                   /\ (nodeStore \ nodeStore') \subseteq {<<target.node, target.file>>}
                   /\ last'.authKey = SecretOf(target.node)
             /\ target.scheme = "local" =>
                   /\ nodeStore' = nodeStore
                   /\ last'.status = 0
                   /\ last'.authKey = NoKey

C25_RoutedByPath == [][C25_Step]_vars

\* An object on a node was delivered while the master holds another object on its disk.
C25_Witness ==
    /\ last.op = "serve"
    /\ last.status = 200
    /\ last.source.scheme = "node"
    /\ <<last.source.node, last.file>> \in nodeStore
    /\ last.file \notin disk
    /\ disk # {}

\* ------------------------------------------------- claims on uploads side by side

\* The records of the objects located on node n.
NodeFiles(n) == {f \in files : f.path.scheme = "node" /\ f.path.node = n}

\* No counter is above its ceiling.
WithinCeiling(rows) == \A n \in NodeIds : rows[n].usedStorage <= rows[n].maxStorage

\* C26: when no counter is above its ceiling, none is after an upload that ran to
\* its end with no other upload under way; two uploads of which one read the free
\* space of a node before the other had written can both succeed and leave on the
\* node more bytes than its ceiling.
C26_Step ==
    (last'.op = "upload" /\ PlaceFrames = {} /\ WithinCeiling(nodes)) => WithinCeiling(nodes')

C26_SoftCeiling == [][C26_Step]_vars

\* Two uploads that interleaved have both succeeded and their objects, both recorded
\* on the node, are larger than its ceiling.
C26_Witness ==
    /\ last.op = "placeWrite"
    /\ last.accepted
    /\ last.overtaken
    /\ last.err = ""
    /\ Cardinality(NodeFiles(last.node)) = 2
    /\ SumField(NodeFiles(last.node)) > nodes[last.node].maxStorage
    /\ \A f \in NodeFiles(last.node) : <<last.node, f.id>> \in nodeStore

\* C28: the counter of a node grows by the size of every upload the node accepted
\* and the master saved, also when another upload has written the counter between
\* the read and the save of this one.
C28_Step ==
    /\ (last'.op = "placeWrite" /\ last'.accepted) =>
          nodes'[last'.node].usedStorage = nodes[last'.node].usedStorage + last'.size
    /\ (last'.op = "upload" /\ last'.nodeSaved) =>
          nodes'[last'.node].usedStorage = nodes[last'.node].usedStorage + last'.size

C28_NoIncrementLost == [][C28_Step]_vars

\* C27: a request that presents a single-use token is served only if the token is
\* unused at the moment it is served, so that of the requests that present one
\* single-use token, however they interleave, one at most is served.
C27_Step ==
    (/\ last'.op = "serveDeliver"
     /\ last'.status = 200
     /\ FindSignedURL(signedURLs, last'.sig) # 0
     /\ RowOf(last'.sig).singleUse) => ~RowOf(last'.sig).used

C27_OneDelivery == [][C27_Step]_vars

\* C29: the counter of a node is never below the sizes of the object records
\* located on that node: an upload adds the size it records, and a delete, which takes
\* a record away, leaves the counter as it is.
C29_CounterCoversRecords ==
    \A n \in NodeIds : nodes[n].usedStorage >= SumField(NodeFiles(n))

\* C30: after an issue that succeeded, the signature it returned has a stored token
\* whose single-use flag is the flag that was asked for and which validate accepts.
C30_IssuedAsAsked ==
    (last.op = "issue" /\ last.err = "") =>
        /\ FindSignedURL(signedURLs, last.sig) # 0
        /\ RowOf(last.sig).singleUse = last.singleUse
        /\ ValidateErr(last.sig) = ""

====
